---- MODULE Spec2Model ----
(***************************************************************************)
(* Model of datashader's RaggedArray (src/datashader/datatypes.py): a      *)
(* column of variable-length numeric rows packed into a flat value buffer  *)
(* (flat_array) and a buffer of unsigned row start positions               *)
(* (start_indices).                                                        *)
(*                                                                         *)
(* Representation used below.                                              *)
(*   row    [na |-> BOOLEAN, v |-> sequence]   na = TRUE is None / np.nan  *)
(*   store  [start_indices, flat_array, kind, bits]  kind and bits are the *)
(*          numpy dtype of start_indices ("u" + 8 is uint8)                *)
(*   ret    what the last call returned or raised                          *)
(* The numpy arithmetic is the one of the numpy generation the file is     *)
(* written for (np.bool, np.hstack over a generator): an unsigned array    *)
(* plus a non-negative integer scalar keeps the narrowest unsigned width   *)
(* that holds the array's width and the scalar's value, and wraps.         *)
(* The element dtype of flat_array is not modelled: elements are integers. *)
(***************************************************************************)
EXTENDS Integers, Sequences, FiniteSets, TLC

(* ----------------------------- bounds ---------------------------------- *)

\* longest row sequence enumerated for construction (examples are added)
MaxRows == 2
\* length of the one long row: two of them exceed what uint8 can address
BigLen == 200
\* longest index list enumerated for take
MaxIdx == 2
\* row count of the one long raw offsets buffer
LongRows == 11

VARIABLES s, op, args, ret

vars == <<s, op, args, ret>>

(* ------------------------------ rows ----------------------------------- *)

NaN == [na |-> TRUE, v |-> <<>>]

Arr(x) == [na |-> FALSE, v |-> x]

Big == Arr([k \in 1..BigLen |-> 7])

\* def missing(v): v is None or a scalar nan
missing(v) == v.na

\* len(datum) if not missing(datum) else 0
RowLen(datum) == IF missing(datum) THEN 0 ELSE Len(datum.v)

RECURSIVE SumLen(_)
SumLen(data) ==
    IF data = <<>> THEN 0 ELSE RowLen(Head(data)) + SumLen(Tail(data))

RECURSIVE FlatOf(_)
FlatOf(data) ==
    IF data = <<>> THEN <<>>
    ELSE (IF missing(Head(data)) THEN <<>> ELSE Head(data).v) \o FlatOf(Tail(data))

(* ------------------------- unsigned widths ----------------------------- *)

\* np.iinfo('uint' + str(nbits)).max for the widths the model's lengths reach;
\* every length of the model is far below 2^31, so 32 stands for "32 or more".
UIntMax(nbits) == IF nbits = 8 THEN 255 ELSE IF nbits = 16 THEN 65535 ELSE 2147483647

\* for nbits in [8, 16, 32, 64]: ... if buffer_len <= max_supported: break
BitsFor(buffer_len) ==
    IF buffer_len <= UIntMax(8) THEN 8
    ELSE IF buffer_len <= UIntMax(16) THEN 16
    ELSE IF buffer_len <= UIntMax(32) THEN 32
    ELSE 64

\* storing x in an unsigned integer of nbits bits
Wrap(x, nbits) == IF nbits >= 32 THEN x ELSE x % (UIntMax(nbits) + 1)

(* ------------------------------ stores --------------------------------- *)

MkStore(si, fa, k, b) == [start_indices |-> si, flat_array |-> fa, kind |-> k, bits |-> b]

NoStore == MkStore(<<>>, <<>>, "u", 8)

\* FromSequence with the cursor advanced before the start index is written
FromSequence_AdvanceFirst(data) ==
    LET nbits == BitsFor(SumLen(data))
    IN [start_indices |-> [i \in 1..Len(data) |-> Wrap(SumLen(SubSeq(data, 1, i)), nbits)],
        flat_array |-> FlatOf(data), kind |-> "u", bits |-> nbits]

\* RaggedArray.__init__, the branch for a list of rows
FromSequence(data) ==
    LET buffer_len == SumLen(data)
        nbits == BitsFor(buffer_len)
        start == [i \in 1..Len(data) |-> Wrap(SumLen(SubSeq(data, 1, i - 1)), nbits)]
    IN MkStore(start, FlatOf(data), "u", nbits)

\* RaggedArray.__len__
StoreLen(st) == Len(st.start_indices)

(* ------------------------------ results -------------------------------- *)

Ret(tag, st, row, mask, err, info) ==
    [tag |-> tag, store |-> st, row |-> row, mask |-> mask, err |-> err, info |-> info]

RetStore(st) == Ret("store", st, NaN, <<>>, "", <<>>)
RetRow(r) == Ret("row", NoStore, r, <<>>, "", <<>>)
RetMask(m) == Ret("mask", NoStore, NaN, m, "", <<>>)
RetErr(e, info) == Ret("error", NoStore, NaN, <<>>, e, info)
RetNone == Ret("none", NoStore, NaN, <<>>, "", <<>>)

(* ---------------------------- element access --------------------------- *)

\* flat_array[slice_start:slice_end] with 0-based half-open bounds
PySlice(fa, lo, hi) ==
    LET h == IF hi > Len(fa) THEN Len(fa) ELSE hi
    IN IF lo >= h THEN <<>> ELSE SubSeq(fa, lo + 1, h)

\* RowAt without the sentinel for an empty subrange
RowAt_NoSentinel(st, item) ==
    [na |-> FALSE,
     v |-> PySlice(st.flat_array, st.start_indices[item + 1],
                   IF item + 1 <= Len(st.start_indices) - 1
                   THEN st.start_indices[item + 2]
                   ELSE Len(st.flat_array))]

\* the row at 0-based position item, 0 <= item < len(self)
RowAt(st, item) ==
    LET slice_start == st.start_indices[item + 1]
        slice_end == IF item + 1 <= StoreLen(st) - 1
                     THEN st.start_indices[item + 2]
                     ELSE Len(st.flat_array)
    IN IF slice_end # slice_start
       THEN Arr(PySlice(st.flat_array, slice_start, slice_end))
       ELSE NaN

\* GetItem with the lower bound off by one: -len(self) is refused
GetItem_StrictLower(st, item) ==
    IF item <= -StoreLen(st) \/ item >= StoreLen(st)
    THEN RetErr("IndexError", item)
    ELSE RetRow(RowAt(st, IF item < 0 THEN item + StoreLen(st) ELSE item))

\* RaggedArray.__getitem__ for an integer
GetItem(st, item) ==
    IF item < -StoreLen(st) \/ item >= StoreLen(st)
    THEN RetErr("IndexError", item)
    ELSE RetRow(RowAt(st, IF item < 0 THEN item + StoreLen(st) ELSE item))

\* list(self): the rows in order
Rows(st) == [i \in 1..StoreLen(st) |-> RowAt(st, i - 1)]

(* ----------------------------- validation ------------------------------ *)

\* a numpy array handed to the constructor as data['start_indices'] or
\* data['flat_array']: its dtype kind and width, its rank and its content
NdArray(k, b, nd, d) == [kind |-> k, bits |-> b, ndim |-> nd, data |-> d]

\* start_indices[invalid_inds] for a mask invalid_inds as long as start_indices
InvalidVals(d, m) ==
    LET idx == {i \in 1..Len(d) : d[i] > m}
        f[i \in 0..Len(d)] ==
            IF i = 0 THEN <<>> ELSE IF i \in idx THEN Append(f[i - 1], d[i]) ELSE f[i - 1]
    IN f[Len(d)]

\* _validate_ragged_properties: "ok", or the error it raises.
\* some_invalid_vals = start_indices[invalid_inds[:10]] indexes start_indices
\* with a boolean mask cut to 10 entries: beyond 10 rows the mask no longer
\* matches the array and numpy raises IndexError.
Validate(start_indices, flat_array) ==
    IF start_indices.kind # "u" \/ start_indices.ndim # 1
    THEN RetErr("ValueError", [what |-> "start_indices", v |-> start_indices.data])
    ELSE IF flat_array.ndim # 1
    THEN RetErr("ValueError", [what |-> "flat_array", v |-> flat_array.data])
    ELSE IF \E i \in 1..Len(start_indices.data) :
                start_indices.data[i] > Len(flat_array.data)
    THEN IF Len(start_indices.data) > 10
         THEN RetErr("IndexError", "boolean index did not match indexed array")
         ELSE RetErr("ValueError",
                     [what |-> "invalid_inds", m |-> Len(flat_array.data),
                      vals |-> InvalidVals(start_indices.data, Len(flat_array.data))])
    ELSE RetNone

\* RaggedArray.__init__, the branch for a dict of the two buffers
FromDict(start_indices, flat_array) ==
    LET checked == Validate(start_indices, flat_array)
    IN IF checked.tag = "error" THEN checked
       ELSE RetStore(MkStore(start_indices.data, flat_array.data,
                             start_indices.kind, start_indices.bits))

\* RaggedArray.copy: the same two buffers through the dict branch
Copy(st) ==
    FromDict(NdArray(st.kind, st.bits, 1, st.start_indices),
             NdArray("f", 64, 1, st.flat_array))

(* ------------------------- slice, mask, take --------------------------- *)

\* an optional argument: <<>> is None, <<x>> is the value x
None == <<>>
Some(x) == <<x>>

\* np.arange(n)[start:stop:step] for step # 0: the selected positions, 0-based
SliceIndices(start, stop, step, n) ==
    LET st == IF step = None THEN 1 ELSE step[1]
        lo0 == IF start = None THEN (IF st < 0 THEN n - 1 ELSE 0)
               ELSE IF start[1] < 0
                    THEN (IF start[1] + n < 0 THEN (IF st < 0 THEN -1 ELSE 0)
                          ELSE start[1] + n)
                    ELSE (IF start[1] >= n THEN (IF st < 0 THEN n - 1 ELSE n)
                          ELSE start[1])
        hi0 == IF stop = None THEN (IF st < 0 THEN -1 ELSE n)
               ELSE IF stop[1] < 0
                    THEN (IF stop[1] + n < 0 THEN (IF st < 0 THEN -1 ELSE 0)
                          ELSE stop[1] + n)
                    ELSE (IF stop[1] >= n THEN (IF st < 0 THEN n - 1 ELSE n)
                          ELSE stop[1])
        cnt == IF st < 0
               THEN (IF hi0 < lo0 THEN ((lo0 - hi0 - 1) \div (-st)) + 1 ELSE 0)
               ELSE (IF lo0 < hi0 THEN ((hi0 - lo0 - 1) \div st) + 1 ELSE 0)
    IN [k \in 1..cnt |-> lo0 + (k - 1) * st]

\* RaggedArray.__getitem__ for a slice
GetSlice(st, start, stop, step) ==
    IF step = Some(0)
    THEN RetErr("ValueError", "slice step cannot be zero")
    ELSE LET selected_indices == SliceIndices(start, stop, step, StoreLen(st))
             data == [k \in 1..Len(selected_indices) |->
                         RowAt(st, selected_indices[k])]
         IN RetStore(FromSequence(data))

\* the positions i (0-based, in order) with item[i] true
TruePositions(item) ==
    LET f[i \in 0..Len(item)] ==
            IF i = 0 THEN <<>>
            ELSE IF item[i] THEN Append(f[i - 1], i - 1) ELSE f[i - 1]
    IN f[Len(item)]

\* RaggedArray.__getitem__ for a boolean ndarray
GetMask(st, item) ==
    LET pos == TruePositions(item)
        bad == {k \in 1..Len(pos) : pos[k] >= StoreLen(st)}
    IN IF bad # {}
       THEN RetErr("IndexError", pos[CHOOSE k \in bad : \A j \in bad : k <= j])
       ELSE RetStore(FromSequence([k \in 1..Len(pos) |-> RowAt(st, pos[k])]))

\* the entries of indices below bound, in order
Below(indices, bound) ==
    LET f[i \in 0..Len(indices)] ==
            IF i = 0 THEN <<>>
            ELSE IF indices[i] < bound THEN Append(f[i - 1], indices[i]) ELSE f[i - 1]
    IN f[Len(indices)]

\* invalid_inds[:9]
FirstNine(q) == IF Len(q) <= 9 THEN q ELSE SubSeq(q, 1, 9)

\* Take that looks every index up, -1 included, whatever allow_fill says
Take_FillLooksUp(st, indices, allow_fill, fill_value) ==
    LET invalid_inds == Below(indices, -1)
        bad == {k \in 1..Len(indices) : GetItem(st, indices[k]).tag = "error"}
    IN IF allow_fill /\ invalid_inds # <<>>
       THEN RetErr("ValueError", FirstNine(invalid_inds))
       ELSE IF ~allow_fill /\ StoreLen(st) = 0 /\ Len(indices) > 0
       THEN RetErr("IndexError", "cannot do a non-empty take")
       ELSE IF bad # {}
       THEN GetItem(st, indices[CHOOSE k \in bad : \A j \in bad : k <= j])
       ELSE RetStore(FromSequence([k \in 1..Len(indices) |-> GetItem(st, indices[k]).row]))

\* RaggedArray.take
Take(st, indices, allow_fill, fill_value) ==
    LET n == StoreLen(st)
        invalid_inds == Below(indices, -1)
        looked == IF allow_fill
                  THEN {k \in 1..Len(indices) : indices[k] >= 0}
                  ELSE 1..Len(indices)
        bad == {k \in looked : GetItem(st, indices[k]).tag = "error"}
        sequence == [k \in 1..Len(indices) |->
                        IF k \in looked THEN GetItem(st, indices[k]).row
                        ELSE fill_value]
    IN IF allow_fill /\ invalid_inds # <<>>
       THEN RetErr("ValueError", FirstNine(invalid_inds))
       ELSE IF ~allow_fill /\ n = 0 /\ Len(indices) > 0
       THEN RetErr("IndexError", "cannot do a non-empty take")
       ELSE IF bad # {}
       THEN GetItem(st, indices[CHOOSE k \in bad : \A j \in bad : k <= j])
       ELSE RetStore(FromSequence(sequence))

(* ------------------------------ missing -------------------------------- *)

\* IsNa that takes every length <= 0 for missing
IsNa_NotPositive(st) ==
    [i \in 1..StoreLen(st) |->
        (IF i < StoreLen(st) THEN st.start_indices[i + 1] ELSE Len(st.flat_array))
            - st.start_indices[i] <= 0]

\* RaggedArray.isna
IsNa(st) ==
    LET n == StoreLen(st)
        stop_indices == [i \in 1..n |->
                            IF i < n THEN st.start_indices[i + 1]
                            ELSE Len(st.flat_array)]
        element_lengths == [i \in 1..n |-> stop_indices[i] - st.start_indices[i]]
    IN [i \in 1..n |-> element_lengths[i] = 0]

(* ---------------------------- concatenation --------------------------- *)

RECURSIVE HStack(_)
HStack(qs) == IF qs = <<>> THEN <<>> ELSE Head(qs) \o HStack(Tail(qs))

Max(a, b) == IF a >= b THEN a ELSE b

RECURSIVE MaxOf(_)
MaxOf(q) == IF q = <<>> THEN 0 ELSE Max(Head(q), MaxOf(Tail(q)))

\* offsets = np.hstack([[0], np.cumsum([len(ra.flat_array) for ra in to_concat[:-1]])])
\* offsets[k]: the value; its dtype is float64 when to_concat[:-1] is empty
\* (np.cumsum([]) is a float64 array) and int64 otherwise
ConcatOffset(to_concat, k) ==
    Len(HStack([j \in 1..(k - 1) |-> to_concat[j].flat_array]))

ConcatOffsetKind(to_concat) == IF Len(to_concat) = 1 THEN "f" ELSE "i"

\* ra.start_indices + offset: an unsigned array plus an integer scalar stays
\* unsigned, as wide as the array and the scalar's value need, and wraps;
\* plus a float scalar it is a float array
ShiftedStart(ra, offset, offkind) ==
    IF offkind = "f"
    THEN NdArray("f", 64, 1, [i \in 1..StoreLen(ra) |-> ra.start_indices[i] + offset])
    ELSE LET nbits == Max(ra.bits, BitsFor(offset))
         IN NdArray(ra.kind, nbits, 1,
                    [i \in 1..StoreLen(ra) |-> Wrap(ra.start_indices[i] + offset, nbits)])

\* RaggedArray._concat_same_type for a non-empty list
ConcatSameType(to_concat) ==
    LET flat_array == HStack([j \in 1..Len(to_concat) |-> to_concat[j].flat_array])
        pieces == [j \in 1..Len(to_concat) |->
                      ShiftedStart(to_concat[j], ConcatOffset(to_concat, j),
                                   ConcatOffsetKind(to_concat))]
        kind == IF \E j \in 1..Len(pieces) : pieces[j].kind = "f" THEN "f" ELSE "u"
        start_indices ==
            NdArray(kind, MaxOf([j \in 1..Len(pieces) |-> pieces[j].bits]), 1,
                    HStack([j \in 1..Len(pieces) |-> pieces[j].data]))
    IN FromDict(start_indices, NdArray("f", 64, 1, flat_array))

(* ------------------------------- shift --------------------------------- *)

Abs(x) == IF x < 0 THEN -x ELSE x

Min(a, b) == IF a <= b THEN a ELSE b

\* RaggedArray.shift; fill_value = NaN stands for the default None
Shift(st, periods, fill_value) ==
    IF StoreLen(st) = 0 \/ periods = 0
    THEN Copy(st)
    ELSE LET empty == FromSequence([k \in 1..Min(Abs(periods), StoreLen(st)) |->
                                       fill_value])
             a == IF periods > 0 THEN empty
                  ELSE GetSlice(st, Some(Abs(periods)), None, None).store
             b == IF periods > 0 THEN GetSlice(st, None, Some(-periods), None).store
                  ELSE empty
         IN ConcatSameType(<<a, b>>)

(* ------------------------------- fillna -------------------------------- *)

\* pandas pad_1d on the rows: propagate the last valid row forward, at most
\* lim times in a run
PadRows(rows, mask, lim) ==
    LET f[i \in 0..Len(rows)] ==
            IF i = 0 THEN [out |-> <<>>, val |-> NaN, cnt |-> 0]
            ELSE LET prev == f[i - 1]
                     val == IF i = 1 THEN rows[1] ELSE prev.val
                 IN IF mask[i]
                    THEN IF prev.cnt >= lim
                         THEN [out |-> Append(prev.out, rows[i]), val |-> val,
                               cnt |-> prev.cnt]
                         ELSE [out |-> Append(prev.out, val), val |-> val,
                               cnt |-> prev.cnt + 1]
                    ELSE [out |-> Append(prev.out, rows[i]), val |-> rows[i], cnt |-> 0]
    IN f[Len(rows)].out

Reverse(q) == [i \in 1..Len(q) |-> q[Len(q) + 1 - i]]

\* pandas backfill_1d: the same from the end
BackfillRows(rows, mask, lim) == Reverse(PadRows(Reverse(rows), Reverse(mask), lim))

\* np.nan as an element of a flat_array: a value outside the integers used
\* for the other elements
np_nan == -1

\* isinstance(value, RaggedArray) for a value that is a row or a store
IsStore(value) == "start_indices" \in DOMAIN value

\* self._flat_array[next_start_ind:next_start_ind+n] = array_el for an
\* array_el that is a RaggedArray of n rows: numpy reads it as the sequence of
\* its rows. Rows of one length L make an (n, L) array, which fits the n
\* places only for n = L = 1; otherwise the rows make n objects, each of which
\* must convert to one float (nan, or an array of one element).
StoreAsRow(array_el) ==
    LET rows == Rows(array_el)
        n == StoreLen(array_el)
    IN IF n > 0 /\ \A i \in 1..n : ~missing(rows[i]) /\ Len(rows[i].v) = Len(rows[1].v)
       THEN IF n = 1 /\ Len(rows[1].v) = 1
            THEN RetRow(Arr(rows[1].v))
            ELSE RetErr("ValueError", "could not broadcast input array")
       ELSE IF \A i \in 1..n : missing(rows[i]) \/ Len(rows[i].v) = 1
       THEN RetRow(Arr([i \in 1..n |-> IF missing(rows[i]) THEN np_nan ELSE rows[i].v[1]]))
       ELSE RetErr("ValueError", "setting an array element with a sequence.")

\* RaggedArray.fillna; value (a row or a store), method and limit are optional
FillNa(st, value, method, limit) ==
    LET mask == IsNa(st)
        lim == IF limit = None THEN StoreLen(st) ELSE limit[1]
        ragged == value # None /\ IsStore(value[1])
        \* value = value[mask]; new_values[ind] = value; what the constructor
        \* then writes for that entry
        written == IF ragged THEN StoreAsRow(GetMask(value[1], mask).store)
                   ELSE RetRow(value[1])
        new_values == [i \in 1..StoreLen(st) |->
                          IF mask[i] THEN written.row ELSE RowAt(st, i - 1)]
    IN IF value = None /\ method = None
       THEN RetErr("ValueError", "Must specify a fill 'value' or 'method'.")
       ELSE IF value # None /\ method # None
       THEN RetErr("ValueError", "Cannot specify both 'value' and 'method'.")
       ELSE IF ragged /\ StoreLen(value[1]) # StoreLen(st)
       THEN RetErr("ValueError", "Length of 'value' does not match.")
       ELSE IF \E i \in 1..StoreLen(st) : mask[i]
       THEN IF method # None
            THEN RetStore(FromSequence(
                     IF method[1] \in {"pad", "ffill"}
                     THEN PadRows(Rows(st), mask, lim)
                     ELSE BackfillRows(Rows(st), mask, lim)))
            ELSE IF written.tag = "error" THEN written
            ELSE RetStore(FromSequence(new_values))
       ELSE Copy(st)

(* ------------------------------ equality ------------------------------- *)

\* ArrayEqual that stops at the end of the shorter array
ArrayEqual_Prefix(a1, a2) ==
    \A k \in 1..Min(Len(a1), Len(a2)) : a1[k] = a2[k] /\ a1[k] # np_nan

\* np.array_equal(a1, a2): the same shape and a1 == a2 at every position
\* (nan is equal to nothing)
ArrayEqual(a1, a2) ==
    /\ Len(a1) = Len(a2)
    /\ \A k \in 1..Len(a1) : a1[k] = a2[k] /\ a1[k] # np_nan

\* _eq_ragged_ragged
EqRaggedRagged(ra1, ra2) ==
    LET n == Len(ra1.start_indices)
        m1 == Len(ra1.flat_array)
        m2 == Len(ra2.flat_array)
    IN [i \in 1..n |->
           LET start_index1 == ra1.start_indices[i]
               stop_index1 == IF i - 1 < n - 1 THEN ra1.start_indices[i + 1] ELSE m1
               start_index2 == ra2.start_indices[i]
               stop_index2 == IF i - 1 < n - 1 THEN ra2.start_indices[i + 1] ELSE m2
           IN ArrayEqual(PySlice(ra1.flat_array, start_index1, stop_index1),
                         PySlice(ra2.flat_array, start_index2, stop_index2))]

\* RaggedArray.__eq__ for another RaggedArray
Eq(self, other) ==
    IF StoreLen(other) # StoreLen(self)
    THEN RetErr("ValueError", [len_ra1 |-> StoreLen(self), len_ra2 |-> StoreLen(other)])
    ELSE RetMask(EqRaggedRagged(self, other))

(* ------------------------- ordering and search ------------------------- *)

\* e1 < e2 on two elements (a comparison with nan is false)
ElemLt(e1, e2) == e1 # np_nan /\ e2 # np_nan /\ e1 < e2

\* LexographLt without the comparison of the lengths at the end
LexographLt_NoLength(a1, a2) ==
    LET n == Min(Len(a1), Len(a2))
        decided == {k \in 1..n : ElemLt(a1[k], a2[k]) \/ ElemLt(a2[k], a1[k])}
    IN IF decided # {}
       THEN LET k == CHOOSE k \in decided : \A j \in decided : k <= j
            IN ElemLt(a1[k], a2[k])
       ELSE FALSE

\* _lexograph_lt: the first pair of zip(a1, a2) with e1 < e2 or e1 > e2
\* decides; without one, len(a1) < len(a2)
LexographLt(a1, a2) ==
    LET n == Min(Len(a1), Len(a2))
        decided == {k \in 1..n : ElemLt(a1[k], a2[k]) \/ ElemLt(a2[k], a1[k])}
    IN IF decided # {}
       THEN LET k == CHOOSE k \in decided : \A j \in decided : k <= j
            IN ElemLt(a1[k], a2[k])
       ELSE Len(a1) < Len(a2)

\* _RaggedElement.__eq__ on two elements
ElementEq(x, y) == ArrayEqual(x.v, y.v)

\* _RaggedElement.__lt__ on two elements
ElementLt(x, y) == LexographLt(x.v, y.v)

\* _RaggedElement.__gt__, which total_ordering derives from __lt__ and __eq__
ElementGt(x, y) == ~ElementLt(x, y) /\ ~ElementEq(x, y)

\* numpy's comparison of two entries of an object array, each a
\* _RaggedElement or the float nan (ragged_or_nan): cmp is -1, 0 or 1, and
\* err is set when Python has no < between them (a float and a _RaggedElement)
ObjectCompare(x, y) ==
    IF missing(x) /\ missing(y) THEN [err |-> FALSE, cmp |-> 0]
    ELSE IF missing(x) \/ missing(y) THEN [err |-> TRUE, cmp |-> 0]
    ELSE IF ElementLt(x, y) THEN [err |-> FALSE, cmp |-> -1]
    ELSE IF ElementGt(x, y) THEN [err |-> FALSE, cmp |-> 1]
    ELSE [err |-> FALSE, cmp |-> 0]

RetIndex(k) == Ret("index", NoStore, NaN, <<>>, "", k)

\* numpy's binary search of key in arr between the 0-based positions min_idx
\* and max_idx
RECURSIVE BinSearch(_, _, _, _, _)
BinSearch(arr, key, side, min_idx, max_idx) ==
    IF min_idx >= max_idx THEN RetIndex(min_idx)
    ELSE LET mid_idx == min_idx + ((max_idx - min_idx) \div 2)
             compared == ObjectCompare(arr[mid_idx + 1], key)
             cmp == compared.cmp
         IN IF compared.err
            THEN RetErr("TypeError", "'<' not supported between 'float' and '_RaggedElement'")
            ELSE IF (IF side = "left" THEN cmp < 0 ELSE cmp <= 0)
            THEN BinSearch(arr, key, side, mid_idx + 1, max_idx)
            ELSE BinSearch(arr, key, side, min_idx, mid_idx)

\* RaggedArray.searchsorted for one array as value, without sorter
SearchSorted(st, value, side) ==
    LET arr == Rows(st)
    IN BinSearch(arr, value, side, 0, Len(arr))

(* ------------------------------- astype -------------------------------- *)

\* RaggedArray.astype to the store's own dtype ("ragged") or to object
AsType(st, dtype, copy) ==
    IF dtype = "ragged"
    THEN IF copy THEN Copy(st) ELSE RetStore(st)
    ELSE Ret("array", NoStore, NaN, <<>>, "", Rows(st))

(* ------------------------------ inputs --------------------------------- *)

RowInputs == {NaN, Arr(<<>>), Arr(<<1>>), Arr(<<2>>), Arr(<<1, 2>>), Big}

RECURSIVE SeqsUpTo(_, _)
SeqsUpTo(S, n) ==
    IF n = 0 THEN {<<>>}
    ELSE LET shorter == SeqsUpTo(S, n - 1)
         IN shorter \cup {Append(q, x) : q \in {p \in shorter : Len(p) = n - 1}, x \in S}

Examples ==
    { <<Arr(<<1, 2>>), NaN, Arr(<<>>), Arr(<<3>>)>>,
      <<Arr(<<1>>), Arr(<<2>>), Arr(<<3>>)>>,
      <<Big, Arr(<<1>>), Arr(<<2>>)>> }

DataInputs == SeqsUpTo(RowInputs, MaxRows) \cup Examples

\* stores handed to concat beside the receiver
Operands ==
    { FromSequence(<<>>),
      FromSequence(<<Arr(<<1>>), NaN>>),
      FromSequence(<<Big, Arr(<<2>>)>>) }

SliceBounds == {None} \cup {Some(k) : k \in {-3, -1, 1, 2}}

SliceSteps == {None, Some(2), Some(-1), Some(0)}

\* ten indices below -1
LongIndices == [k \in 1..10 |-> -1 - k]

IndexInputs(n) == SeqsUpTo(-(n + 1)..n, MaxIdx) \cup {LongIndices}

FillInputs == {NaN, Arr(<<1>>), Big}

\* rows searched for and compared
Targets == {Arr(<<>>), Arr(<<1>>), Arr(<<2>>), Arr(<<1, 2>>), Arr(<<2, 1>>)}

\* stores handed to fillna as value
ValueStores ==
    {FromSequence(data) : data \in SeqsUpTo({NaN, Arr(<<1>>), Arr(<<1, 2>>)}, MaxRows)}

RECURSIVE SeqsOfLen(_, _)
SeqsOfLen(S, n) ==
    IF n = 0 THEN {<<>>} ELSE {Append(q, x) : q \in SeqsOfLen(S, n - 1), x \in S}

\* raw buffers: unsigned 1-D start_indices of every content, and one each
\* of a signed, a float and a 2-D one; flat arrays of rank 1 and one of rank 2
PairStarts ==
    {NdArray("u", 8, 1, d) : d \in SeqsUpTo(0..3, MaxRows)}
        \cup {NdArray("i", 64, 1, <<0>>), NdArray("f", 64, 1, <<0>>),
              NdArray("u", 8, 2, <<0>>),
              NdArray("u", 8, 1, [k \in 1..LongRows |-> IF k = 2 THEN 3 ELSE 0])}

PairFlats ==
    {NdArray("f", 64, 1, d) : d \in {<<>>, <<1>>, <<1, 2>>}}
        \cup {NdArray("f", 64, 2, <<1, 2>>)}

(* ------------------------------ actions -------------------------------- *)
\* op is the caller's position: "ready" before a call on the store s, the
\* name of the call once it has returned (ret is what it returned or raised).

Ready == op = "ready"

\* Returned for a call that writes the store it returns over the receiver
Returned_InPlace(name, a, r) ==
    /\ op' = name
    /\ args' = a
    /\ ret' = r
    /\ s' = IF r.tag = "store" THEN r.store ELSE s

\* a call returns: no method assigns to self._start_indices or
\* self._flat_array or writes into them, so the receiver is as before
Returned(name, a, r) ==
    /\ op' = name
    /\ args' = a
    /\ ret' = r
    /\ UNCHANGED s

\* the state after s = RaggedArray(data), or after
\* s = RaggedArray({'start_indices': ..., 'flat_array': ...}) went through
Init ==
    \/ \E data \in DataInputs :
        /\ s = FromSequence(data)
        /\ op = "build"
        /\ args = [data |-> data]
        /\ ret = RetStore(FromSequence(data))
    \/ \E si \in PairStarts, fa \in PairFlats :
        /\ FromDict(si, fa).tag = "store"
        /\ s = FromDict(si, fa).store
        /\ op = "from_pair"
        /\ args = [start_indices |-> si, flat_array |-> fa]
        /\ ret = FromDict(si, fa)

\* RaggedArray({'start_indices': ..., 'flat_array': ...}) beside s
FromPair ==
    /\ Ready
    /\ \E si \in PairStarts, fa \in PairFlats :
        Returned("from_pair", [start_indices |-> si, flat_array |-> fa],
                 FromDict(si, fa))

\* s[item]
Get ==
    /\ Ready
    /\ \E item \in -(StoreLen(s) + 1)..StoreLen(s) :
        Returned("get", [item |-> item], GetItem(s, item))

\* s[start:stop:step]
Slice ==
    /\ Ready
    /\ \E start \in SliceBounds, stop \in SliceBounds, step \in SliceSteps :
        Returned("slice", [start |-> start, stop |-> stop, step |-> step],
                 GetSlice(s, start, stop, step))

\* s[mask]
BooleanSelect ==
    /\ Ready
    /\ \E n \in {StoreLen(s), StoreLen(s) + 1} :
        \E item \in SeqsOfLen(BOOLEAN, n) :
            Returned("boolean_select", [mask |-> item], GetMask(s, item))

\* s.take(indices, allow_fill, fill_value)
TakeRows ==
    /\ Ready
    /\ \E indices \in IndexInputs(StoreLen(s)), allow_fill \in BOOLEAN,
          fill_value \in {NaN, Arr(<<1>>)} :
        /\ (~allow_fill => fill_value = NaN)
        /\ Returned("take", [indices |-> indices, allow_fill |-> allow_fill,
                             fill_value |-> fill_value],
                    Take(s, indices, allow_fill, fill_value))

\* s.isna()
IsMissing ==
    /\ Ready
    /\ Returned("isna", <<>>, RetMask(IsNa(s)))

\* s.shift(periods, fill_value)
ShiftRows ==
    /\ Ready
    /\ \E periods \in -(StoreLen(s) + 1)..(StoreLen(s) + 1), fill_value \in FillInputs :
        Returned("shift", [periods |-> periods, fill_value |-> fill_value],
                 Shift(s, periods, fill_value))

\* s.fillna(value, method, limit)
FillMissing ==
    /\ Ready
    /\ \/ \E value \in {None, Some(Arr(<<1>>))},
             method \in {None, Some("pad"), Some("ffill"), Some("backfill"), Some("bfill")},
             limit \in {None, Some(1)} :
           Returned("fillna", [value |-> value, method |-> method, limit |-> limit],
                    FillNa(s, value, method, limit))
       \/ \E value \in ValueStores :
           Returned("fillna", [value |-> Some(value), method |-> None, limit |-> None],
                    FillNa(s, Some(value), None, None))

\* s == other
Equal ==
    /\ Ready
    /\ \E other \in Operands \cup ValueStores \cup {s} :
        Returned("eq", [other |-> other], Eq(s, other))

\* s.searchsorted(value, side)
Search ==
    /\ Ready
    /\ \E value \in Targets, side \in {"left", "right"} :
        Returned("searchsorted", [value |-> value, side |-> side],
                 SearchSorted(s, value, side))

\* _RaggedElement(a) < _RaggedElement(b) for a row a of s that is not missing
\* and a row b of s or of Targets
Compare ==
    /\ Ready
    /\ \E i \in 1..StoreLen(s) :
        \E b \in Targets \cup {Rows(s)[j] : j \in 1..StoreLen(s)} :
            /\ ~missing(Rows(s)[i])
            /\ ~missing(b)
            /\ Returned("lt", [a |-> Rows(s)[i], b |-> b],
                        Ret("bool", NoStore, NaN, <<>>, "", ElementLt(Rows(s)[i], b)))

\* s.astype(dtype, copy)
Convert ==
    /\ Ready
    /\ \E dtype \in {"ragged", "object"}, copy \in BOOLEAN :
        Returned("astype", [dtype |-> dtype, copy |-> copy], AsType(s, dtype, copy))

\* RaggedArray._concat_same_type(to_concat), the receiver among the inputs
Concat ==
    /\ Ready
    /\ \E to_concat \in SeqsUpTo(Operands \cup {s}, 3) \ {<<>>} :
        Returned("concat", [to_concat |-> to_concat], ConcatSameType(to_concat))

\* the value buffer holds the rows back to back and nothing else
Dense(st) == st.flat_array = FlatOf(Rows(st))

\* the value buffer holds numbers only
Numeric(st) == {k \in 1..Len(st.flat_array) : st.flat_array[k] = np_nan} = {}

\* s = RaggedArray(result): the caller goes on with the store it was returned
\* (followed for the results of at most MaxRows rows that are dense and numeric)
Adopt ==
    /\ ~Ready
    /\ ret.tag = "store"
    /\ StoreLen(ret.store) <= MaxRows
    /\ Dense(ret.store)
    /\ Numeric(ret.store)
    /\ s' = ret.store
    /\ op' = "ready"
    /\ args' = <<>>
    /\ ret' = RetNone

\* the caller drops the result and goes on with s
Drop ==
    /\ ~Ready
    /\ op' = "ready"
    /\ args' = <<>>
    /\ ret' = RetNone
    /\ UNCHANGED s

Next ==
    \/ FromPair \/ Get \/ Slice \/ BooleanSelect \/ TakeRows \/ IsMissing
    \/ ShiftRows \/ FillMissing \/ Equal \/ Search \/ Compare \/ Convert \/ Concat \/ Adopt \/ Drop

Spec == Init /\ [][Next]_vars

(* ===================== the claims, settled on Spec ===================== *)

\* the data model's invariants 1-5 of a store: unsigned 1-D offsets, every
\* offset within the value buffer, one offset per row, a row missing exactly
\* when its subrange is empty, and rows that neither overlap nor leave the buffer
WellFormed(st) ==
    /\ st.kind = "u"
    /\ \A i \in 1..StoreLen(st) : st.start_indices[i] <= Len(st.flat_array)
    /\ Len(IsNa(st)) = StoreLen(st)
    /\ \A i \in 1..StoreLen(st) : IsNa(st)[i] <=> (RowAt(st, i - 1) = NaN)
    /\ \A i \in 1..(StoreLen(st) - 1) : st.start_indices[i] <= st.start_indices[i + 1]

\* what a row reads as once it is stored: a row without elements is missing
Stored(row) == IF RowLen(row) = 0 THEN NaN ELSE row

Transforming == {"slice", "take", "concat", "boolean_select", "fillna", "shift", "astype"}

\* the stores a call reads: the receiver, or the list handed to concat
InputsOf(o, a) ==
    IF o = "concat" THEN {a.to_concat[j] : j \in 1..Len(a.to_concat)} ELSE {s}

\* C1: every store returned by slice, take, concat, boolean_select, fillna,
\* shift or astype-to-self on stores that satisfy invariants 1-5 satisfies
\* invariants 1-5 again.
C1_InvariantPreservation ==
    (/\ op \in Transforming
     /\ ret.tag = "store"
     /\ \A st \in InputsOf(op, args) : WellFormed(st))
        => WellFormed(ret.store)

\* C2 as stated: a store built from N rows has length N and get(i) gives back
\* row i exactly, the missing sentinel for a missing row.
C2_RoundTripExact ==
    op = "build" =>
        /\ StoreLen(ret.store) = Len(args.data)
        /\ \A i \in 1..Len(args.data) :
              GetItem(ret.store, i - 1) =
                  RetRow(IF missing(args.data[i]) THEN NaN ELSE args.data[i])

\* C2 amended: a store built from N rows has length N and get(i) gives back
\* row i exactly when the row has elements, and the missing sentinel when the
\* row is missing or has no elements.
C2_RoundTrip ==
    op = "build" =>
        /\ StoreLen(ret.store) = Len(args.data)
        /\ \A i \in 1..Len(args.data) :
              GetItem(ret.store, i - 1) =
                  RetRow(IF missing(args.data[i]) \/ args.data[i].v = <<>>
                         THEN NaN ELSE args.data[i])

C2_Witness ==
    /\ op = "build"
    /\ args.data = <<Arr(<<1, 2>>), NaN, Arr(<<>>), Arr(<<3>>)>>
    /\ GetItem(ret.store, 0).row = Arr(<<1, 2>>)
    /\ GetItem(ret.store, 2).row = NaN
    /\ GetItem(ret.store, 3).row = Arr(<<3>>)

\* each input's offsets plus the value-buffer length of the inputs before it
ExactStart(to_concat) ==
    HStack([j \in 1..Len(to_concat) |->
               [i \in 1..StoreLen(to_concat[j]) |->
                   to_concat[j].start_indices[i] + ConcatOffset(to_concat, j)]])

\* C3: concat of a non-empty list returns a store whose value buffer is the
\* inputs' value buffers in order and whose offsets are the inputs' offsets
\* shifted by the length of the buffers before them; it has the inputs' rows
\* in input order.
C3_ConcatLayout ==
    op = "concat" =>
        /\ ret.tag = "store"
        /\ ret.store.flat_array =
               HStack([j \in 1..Len(args.to_concat) |-> args.to_concat[j].flat_array])
        /\ ret.store.start_indices = ExactStart(args.to_concat)
        /\ (\A j \in 1..Len(args.to_concat) : WellFormed(args.to_concat[j]))
               => Rows(ret.store) =
                      HStack([j \in 1..Len(args.to_concat) |-> Rows(args.to_concat[j])])

\* C4: when the combined element count or a shifted offset of a concat does
\* not fit the width the inputs' offsets are stored in, the result's offsets
\* are still the exact sums, unsigned, and pass the raw-pair validation.
C4_ConcatWidens ==
    (/\ op = "concat"
     /\ \E j \in 1..Len(args.to_concat) :
           \/ Len(HStack([i \in 1..Len(args.to_concat) |-> args.to_concat[i].flat_array]))
                  > UIntMax(args.to_concat[j].bits)
           \/ \E i \in 1..Len(ExactStart(args.to_concat)) :
                  ExactStart(args.to_concat)[i] > UIntMax(args.to_concat[j].bits))
        => /\ ret.tag = "store"
           /\ ret.store.kind = "u"
           /\ ret.store.start_indices = ExactStart(args.to_concat)
           /\ \A i \in 1..StoreLen(ret.store) :
                  ret.store.start_indices[i] <= Len(ret.store.flat_array)

\* two results have the same row count and the same row at every index
RowEqual(r1, r2) ==
    /\ r1.tag = "store"
    /\ r2.tag = "store"
    /\ StoreLen(r1.store) = StoreLen(r2.store)
    /\ Rows(r1.store) = Rows(r2.store)

\* C5: concat([concat([a, b]), c]), concat([a, concat([b, c])]) and
\* concat([a, b, c]) have the same rows.
C5_ConcatAssociative ==
    (op = "concat" /\ Len(args.to_concat) = 3) =>
        LET a == args.to_concat[1]
            b == args.to_concat[2]
            c == args.to_concat[3]
            ab == ConcatSameType(<<a, b>>)
            bc == ConcatSameType(<<b, c>>)
        IN /\ ab.tag = "store"
           /\ bc.tag = "store"
           /\ RowEqual(ConcatSameType(<<ab.store, c>>), ret)
           /\ RowEqual(ConcatSameType(<<a, bc.store>>), ret)

\* the 0-based position an in-range index selects
Position(i, n) == IF i < 0 THEN i + n ELSE i

\* the result is a store with one row per index: row k is what row_of(k) is stored as
GivesRows(r, count, row_of(_)) ==
    /\ r.tag = "store"
    /\ StoreLen(r.store) = count
    /\ \A k \in 1..count : RowAt(r.store, k - 1) = Stored(row_of(k))

Raises(r, e) == r.tag = "error" /\ r.err = e

\* C6 as stated: take without fill fails with IndexError when an index has an
\* absolute value >= N or the store is empty and the indices are not;
\* otherwise it returns the rows at the indices, counted from the end when
\* negative, in index order.
C6_TakeAbsoluteBound ==
    (op = "take" /\ ~args.allow_fill) =>
        LET n == StoreLen(s)
            idx == args.indices
            row_of(k) == RowAt(s, Position(idx[k], n))
        IN IF (\E k \in 1..Len(idx) : Abs(idx[k]) >= n) \/ (n = 0 /\ idx # <<>>)
           THEN Raises(ret, "IndexError")
           ELSE GivesRows(ret, Len(idx), row_of)

\* C6 amended: take without fill fails with IndexError when an index is
\* outside [-N, N) (the index -N is valid and selects row 0) or the store is
\* empty and the indices are not; otherwise it returns the rows at the indices,
\* counted from the end when negative, in index order.
C6_TakeNoFill ==
    (op = "take" /\ ~args.allow_fill) =>
        LET n == StoreLen(s)
            idx == args.indices
            row_of(k) == RowAt(s, Position(idx[k], n))
        IN IF (\E k \in 1..Len(idx) : idx[k] < -n \/ idx[k] >= n) \/ (n = 0 /\ idx # <<>>)
           THEN Raises(ret, "IndexError")
           ELSE GivesRows(ret, Len(idx), row_of)

C6_Witness ==
    /\ op = "take"
    /\ ~args.allow_fill
    /\ StoreLen(s) = 2
    /\ args.indices = <<-2, 1>>
    /\ ret.tag = "store"
    /\ Rows(ret.store) = Rows(s)
    /\ RowAt(s, 0) # NaN
    /\ RowAt(s, 0) # RowAt(s, 1)

IsBelowMinusOne(x) == x < -1

\* C7: take with fill fails with ValueError naming the first 9 indices below
\* -1 when there is one; otherwise an index -1 gives fill_value (missing by
\* default) and an index i >= 0 gives row i, in index order.
C7_TakeWithFill ==
    (op = "take" /\ args.allow_fill) =>
        LET n == StoreLen(s)
            idx == args.indices
            offending == SelectSeq(idx, IsBelowMinusOne)
            row_of(k) == IF idx[k] = -1 THEN args.fill_value ELSE RowAt(s, idx[k])
        IN IF offending # <<>>
           THEN /\ Raises(ret, "ValueError")
                /\ ret.info = SubSeq(offending, 1, Min(9, Len(offending)))
           ELSE (\A k \in 1..Len(idx) : idx[k] < n) => GivesRows(ret, Len(idx), row_of)

C7_Witness ==
    /\ op = "take"
    /\ args.allow_fill
    /\ args.fill_value = NaN
    /\ StoreLen(s) = 3
    /\ args.indices = <<0, -1>>
    /\ RowAt(s, 0) # NaN
    /\ RowAt(s, 2) # NaN
    /\ ret.tag = "store"
    /\ Rows(ret.store) = <<RowAt(s, 0), NaN>>

\* C8: get(i) accepts exactly -N <= i < N: for 0 <= i < N it is
\* values[offsets[i] : offsets[i+1]] (to M for the last row), the missing
\* sentinel when start = stop; for i < 0 it is get(i + N); any other i fails
\* with IndexError.
C8_GetItem ==
    op = "get" =>
        LET n == StoreLen(s)
            i == args.item
            j == IF i < 0 THEN i + n ELSE i
            start == s.start_indices[j + 1]
            stop == IF j < n - 1 THEN s.start_indices[j + 2] ELSE Len(s.flat_array)
        IN IF -n <= i /\ i < n
           THEN /\ ret.tag = "row"
                /\ ret.row = IF start = stop THEN NaN
                             ELSE Arr([x \in 1..(stop - start) |-> s.flat_array[start + x]])
           ELSE Raises(ret, "IndexError")

C8_Witness ==
    /\ op = "get"
    /\ StoreLen(s) = 2
    /\ args.item = -1
    /\ s.start_indices[2] > s.start_indices[1]
    /\ ret.tag = "row"
    /\ ret.row # NaN
    /\ Len(ret.row.v) = Len(s.flat_array) - s.start_indices[2]

\* C9: is_missing() has one boolean per row, true exactly where get(i) is the
\* missing sentinel, on every store that passes the raw-pair validation; a
\* store built from [[1,2], None, [], [3]] gives [false, true, true, false].
C9_IsMissing ==
    /\ op = "isna" =>
        /\ ret.tag = "mask"
        /\ Len(ret.mask) = StoreLen(s)
        /\ \A i \in 1..StoreLen(s) :
              ret.mask[i] <=> (GetItem(s, i - 1) = RetRow(NaN))
    /\ (op = "isna" /\ s = FromSequence(<<Arr(<<1, 2>>), NaN, Arr(<<>>), Arr(<<3>>)>>))
           => ret.mask = <<FALSE, TRUE, TRUE, FALSE>>

C9_Witness ==
    /\ op = "isna"
    /\ s = FromSequence(<<Arr(<<1, 2>>), NaN, Arr(<<>>), Arr(<<3>>)>>)
    /\ ret.mask = <<FALSE, TRUE, TRUE, FALSE>>

SameElement(x, y) == x = y /\ x # np_nan

\* two rows have the same length and the same elements in order
SameRow(a, b) ==
    /\ RowLen(a) = RowLen(b)
    /\ \A k \in 1..RowLen(a) : SameElement(a.v[k], b.v[k])

\* C12: A == B for two stores of the same row count N is a mask of N booleans
\* whose entry i is true iff row i of A and row i of B have the same length
\* and the same elements in order, and it equals B == A entry by entry; for
\* different row counts the comparison fails with the length-mismatch error.
C12_EqualitySymmetric ==
    op = "eq" =>
        IF StoreLen(args.other) = StoreLen(s)
        THEN /\ ret.tag = "mask"
             /\ Len(ret.mask) = StoreLen(s)
             /\ \A i \in 1..StoreLen(s) :
                   ret.mask[i] <=> SameRow(GetItem(s, i - 1).row,
                                           GetItem(args.other, i - 1).row)
             /\ ret = Eq(args.other, s)
        ELSE /\ Raises(ret, "ValueError")
             /\ Raises(Eq(args.other, s), "ValueError")

C12_Witness ==
    /\ op = "eq"
    /\ StoreLen(s) = 2
    /\ args.other # s
    /\ ret.tag = "mask"
    /\ ret.mask = <<TRUE, FALSE>>
    /\ RowLen(RowAt(s, 1)) = RowLen(RowAt(args.other, 1))

\* C13: construction from a raw (offsets, values) pair succeeds iff offsets
\* is 1-D and unsigned, values is 1-D and every offset is <= M; otherwise,
\* whatever the row count, it fails with the invalid-layout error (ValueError),
\* which for an offset above M reports the offending offsets and M, and no
\* store is returned.
C13_FromPair ==
    op = "from_pair" =>
        LET offsets == args.start_indices
            values == args.flat_array
            M == Len(values.data)
            shaped == offsets.kind = "u" /\ offsets.ndim = 1 /\ values.ndim = 1
            within == \A i \in 1..Len(offsets.data) : offsets.data[i] <= M
        IN IF shaped /\ within
           THEN /\ ret.tag = "store"
                /\ ret.store.start_indices = offsets.data
                /\ ret.store.flat_array = values.data
           ELSE /\ Raises(ret, "ValueError")
                /\ ret.store = NoStore
                /\ shaped =>
                      /\ ret.info.m = M
                      /\ ret.info.vals # <<>>
                      /\ \A k \in 1..Len(ret.info.vals) :
                            /\ ret.info.vals[k] > M
                            /\ \E i \in 1..Len(offsets.data) :
                                  offsets.data[i] = ret.info.vals[k]

\* the lexicographic order on two sequences over the integers: the first
\* position where they differ decides, and a proper prefix is smaller
LexLess(a, b) ==
    \/ \E k \in 1..Min(Len(a), Len(b)) :
          /\ \A j \in 1..(k - 1) : a[j] = b[j]
          /\ a[k] < b[k]
    \/ /\ Len(a) < Len(b)
       /\ \A j \in 1..Len(a) : a[j] = b[j]

\* no element of the store is nan: its elements are totally ordered
Ordered(st) == \A k \in 1..Len(st.flat_array) : st.flat_array[k] # np_nan

\* the positions (1-based) of the rows that are not missing
Present(st) == {i \in 1..StoreLen(st) : ~missing(Rows(st)[i])}

\* the non-missing rows are in lexicographic order
SortedRows(st) ==
    \A i, j \in Present(st) : i < j => ~LexLess(Rows(st)[j].v, Rows(st)[i].v)

\* C14: on a store whose non-missing rows are sorted lexicographically,
\* search_sorted(target, side) returns k in 0..N with, for side "left", every
\* row before k < target and row k, if any, >= target, and for side "right",
\* every row before k <= target and row k, if any, > target (a missing row
\* is taken to be in place wherever it stands).
C14_SearchSorted ==
    (op = "searchsorted" /\ Ordered(s) /\ SortedRows(s)) =>
        LET t == args.value.v
            k == ret.info
            row(i) == Rows(s)[i].v
        IN /\ ret.tag = "index"
           /\ k \in 0..StoreLen(s)
           /\ args.side = "left" =>
                 /\ \A i \in Present(s) : i <= k => LexLess(row(i), t)
                 /\ (k + 1) \in Present(s) => ~LexLess(row(k + 1), t)
           /\ args.side = "right" =>
                 /\ \A i \in Present(s) : i <= k => ~LexLess(t, row(i))
                 /\ (k + 1) \in Present(s) => LexLess(t, row(k + 1))

\* C14 on the stores without a missing row
C14_SearchSortedPresent ==
    (op = "searchsorted" /\ Present(s) = 1..StoreLen(s)) => C14_SearchSorted

C14_Witness ==
    /\ op = "searchsorted"
    /\ Rows(s) = <<Arr(<<1>>), Arr(<<2>>), Arr(<<3>>)>>
    /\ args.value = Arr(<<2>>)
    /\ args.side = "right"
    /\ ret.tag = "index"
    /\ ret.info = 2

OrderedRow(a) == \A k \in 1..Len(a.v) : a.v[k] # np_nan

\* C16: for two non-missing rows a and b over totally ordered elements,
\* a < b iff a's element is smaller at the first position where they differ,
\* or none of the compared positions differs and a is shorter; exactly one of
\* a < b, a == b, b < a holds, with a == b exactly for the same sequence; and
\* a < b and b < c imply a < c.
C16_LexicographicOrder ==
    (op = "lt" /\ OrderedRow(args.a) /\ OrderedRow(args.b)) =>
        LET a == args.a
            b == args.b
        IN /\ ret.info <=> LexLess(a.v, b.v)
           /\ ElementLt(b, a) <=> LexLess(b.v, a.v)
           /\ ElementEq(a, b) <=> a.v = b.v
           /\ \/ ret.info /\ ~ElementEq(a, b) /\ ~ElementLt(b, a)
              \/ ~ret.info /\ ElementEq(a, b) /\ ~ElementLt(b, a)
              \/ ~ret.info /\ ~ElementEq(a, b) /\ ElementLt(b, a)
           /\ \A c \in Targets \cup {Arr(<<1>>), Big} :
                 /\ (ret.info /\ ElementLt(b, c)) => ElementLt(a, c)
                 /\ (ElementLt(c, a) /\ ret.info) => ElementLt(c, b)

C16_Witness ==
    /\ op = "lt"
    /\ args.a = Arr(<<1>>)
    /\ args.b = Arr(<<1, 2>>)
    /\ ret.info = TRUE
    /\ ~ElementLt(args.b, args.a)

====
